---------------------------- MODULE Spec2Model ----------------------------
(***************************************************************************)
(* Two-asset rebalancing strategy, its metrics, the SQLite result cache    *)
(* and the grid search of William-Dennis/snp-vs-gold-portfolio.            *)
(*                                                                         *)
(* Floats are modelled as exact rationals <<numerator, denominator>> in    *)
(* lowest terms with a positive denominator, so that equalities such as    *)
(* "the fraction after a rebalance equals t1_ratio" are decided exactly.   *)
(* Python's 0-based arrays are TLA+ sequences; At(a, k) reads a[k].        *)
(***************************************************************************)
EXTENDS Integers, Sequences, FiniteSets, TLC

VARIABLES
    sim,      \* run_strategy_numba: its arguments, arrays and loop index
    impl,     \* which module's run_grid_search runs: calculations.py or core/
    fault,    \* which cache-store operation fails in this environment
    table,    \* rows of strategy_results, in insertion order
    log,      \* one record per run_grid_search call, in start order
    cur,      \* per process: the index in log of its running call, 0 if none
    quota,    \* per process: calls it may still start
    hq,       \* make_param_hash applied to two parameter sets
    db,       \* save_results_batch applied to an arbitrary batch
    met       \* the metrics functions applied to a cash series

vars == <<sim, impl, fault, table, log, cur, quota, hq, db, met>>

\* the value of a part of the state that a specification does not exercise
Idle == [pc |-> "idle"]

-----------------------------------------------------------------------------
(* Bounds of the model *)

MaxDays == 3     \* rows of a price series of the simulation
MaxCalls == 2    \* run_grid_search calls of one process
MaxGrid == 2     \* values of an allocation grid
MaxBatch == 2    \* insert tuples of a batch

-----------------------------------------------------------------------------
(* Float arithmetic, as exact rationals *)

Abs(x) == IF x < 0 THEN -x ELSE x

RECURSIVE Gcd(_, _)
Gcd(a, b) == IF b = 0 THEN a ELSE Gcd(b, a % b)

Rat(n, d) ==
    LET g == Gcd(Abs(n), Abs(d))
        s == IF d < 0 THEN -1 ELSE 1
    IN  <<(s * n) \div g, (s * d) \div g>>

RZero == <<0, 1>>
ROne == <<1, 1>>
RInt(k) == <<k, 1>>

\* products are reduced before they are formed, to stay within TLC's integers
RMul(x, y) ==
    LET g1 == Gcd(Abs(x[1]), y[2])
        g2 == Gcd(Abs(y[1]), x[2])
    IN  Rat((x[1] \div g1) * (y[1] \div g2), (x[2] \div g2) * (y[2] \div g1))
RAdd(x, y) ==
    LET g == Gcd(x[2], y[2]) IN
    Rat(x[1] * (y[2] \div g) + y[1] * (x[2] \div g), (x[2] \div g) * y[2])
RNeg(x) == <<-x[1], x[2]>>
RSub(x, y) == RAdd(x, RNeg(y))
\* x / y for y # 0; every use is guarded by the caller as in the source
RDiv(x, y) == RMul(x, IF y[1] < 0 THEN <<-y[2], -y[1]>> ELSE <<y[2], y[1]>>)
RLt(x, y) ==
    LET g == Gcd(x[2], y[2]) IN x[1] * (y[2] \div g) < y[1] * (x[2] \div g)
RGt(x, y) == RLt(y, x)

At(a, k) == a[k + 1]
SetAt(a, k, v) == [a EXCEPT ![k + 1] = v]

-----------------------------------------------------------------------------
(* src/core/strategy.py (identical in src/calculations.py, lines 150-231) *)

\* a faulty sell-asset-1 branch: the excess is taken on the asset-1 position
\* instead of the whole portfolio, so the sale stops short of the target
Faulty_rebalance_sell_t1(t1_cash, t2_cash, t1_pct, t1_ratio) ==
    LET sell_amount == RMul(t1_cash, RSub(t1_pct, t1_ratio)) IN
    [err |-> "none", rebal |-> sell_amount,
     t1_cash |-> RSub(t1_cash, sell_amount),
     t2_cash |-> RAdd(t2_cash, sell_amount)]

\* _rebalance_sell_t1: numba raises ZeroDivisionError on a zero divisor
_rebalance_sell_t1(t1_cash, t2_cash, t1_pct, t1_ratio) ==
    IF t1_ratio = RZero THEN [err |-> "ZeroDivisionError"]
    ELSE LET delta == RDiv(t1_pct, t1_ratio) IN
         IF delta = RZero THEN [err |-> "ZeroDivisionError"]
         ELSE LET sell_amount == RSub(t1_cash, RDiv(t1_cash, delta)) IN
              [err |-> "none", rebal |-> sell_amount,
               t1_cash |-> RSub(t1_cash, sell_amount),
               t2_cash |-> RAdd(t2_cash, sell_amount)]

\* a faulty sell-asset-2 branch: asset 1 is credited and asset 2 is not debited
Faulty_rebalance_sell_t2(t1_cash, t2_cash, t1_pct, t1_ratio) ==
    LET sell_amount == RMul(RAdd(t1_cash, t2_cash), RSub(t1_ratio, t1_pct)) IN
    [err |-> "none", rebal |-> RSub(RZero, sell_amount),
     t1_cash |-> RAdd(t1_cash, sell_amount), t2_cash |-> t2_cash]

\* a faulty sell-asset-2 branch: the position is multiplied by delta where
\* the source divides by it
Multiplying_rebalance_sell_t2(t1_cash, t2_cash, t1_pct, t1_ratio) ==
    IF RSub(ROne, t1_ratio) = RZero THEN [err |-> "ZeroDivisionError"]
    ELSE LET delta == RDiv(RSub(ROne, t1_pct), RSub(ROne, t1_ratio))
             sell_amount == RSub(t2_cash, RMul(t2_cash, delta))
         IN  [err |-> "none", rebal |-> RSub(RZero, sell_amount),
              t1_cash |-> RAdd(t1_cash, sell_amount),
              t2_cash |-> RSub(t2_cash, sell_amount)]

\* _rebalance_sell_t2
_rebalance_sell_t2(t1_cash, t2_cash, t1_pct, t1_ratio) ==
    IF RSub(ROne, t1_ratio) = RZero THEN [err |-> "ZeroDivisionError"]
    ELSE LET delta == RDiv(RSub(ROne, t1_pct), RSub(ROne, t1_ratio)) IN
         IF delta = RZero THEN [err |-> "ZeroDivisionError"]
         ELSE LET sell_amount == RSub(t2_cash, RDiv(t2_cash, delta)) IN
              [err |-> "none", rebal |-> RSub(RZero, sell_amount),
               t1_cash |-> RAdd(t1_cash, sell_amount),
               t2_cash |-> RSub(t2_cash, sell_amount)]

\* a faulty guard: the band check runs for every rebalance_rate, zero included
AlwaysEnabled(rebalance_rate) == TRUE

\* the guard "if rebalance_rate > 0" of _process_timestep
RebalanceEnabled(rebalance_rate) == RGt(rebalance_rate, RZero)

\* a faulty return: the change is divided by the later price
ReturnOnLaterPrice(prices) ==
    IF At(prices, 1) # RZero
    THEN RDiv(RSub(At(prices, 1), At(prices, 0)), At(prices, 1))
    ELSE RZero

\* the return (p[1] - p[0]) / p[0] of a two-element price slice, 0.0 when the
\* earlier price is 0 (lines 51-52)
StepReturn(prices) ==
    IF At(prices, 0) # RZero
    THEN RDiv(RSub(At(prices, 1), At(prices, 0)), At(prices, 0))
    ELSE RZero

\* a faulty fraction: the share of asset 2
FractionOfOther(t1_cash, total) ==
    IF total # RZero THEN RDiv(RSub(total, t1_cash), total) ELSE RZero

\* t1_pct = t1_cash / total if total != 0 else 0.0 (lines 57-58)
Fraction(t1_cash, total) == IF total # RZero THEN RDiv(t1_cash, total) ELSE RZero

\* a faulty decision: a fraction on a band edge triggers a rebalance
DecideOnEdge(t1_cash, t2_cash, t1_pct, t1_ratio, rebalance_rate) ==
    IF RebalanceEnabled(rebalance_rate)
       /\ ~RLt(t1_pct, RAdd(t1_ratio, rebalance_rate))
    THEN _rebalance_sell_t1(t1_cash, t2_cash, t1_pct, t1_ratio)
    ELSE IF RebalanceEnabled(rebalance_rate)
            /\ ~RGt(t1_pct, RSub(t1_ratio, rebalance_rate))
    THEN _rebalance_sell_t2(t1_cash, t2_cash, t1_pct, t1_ratio)
    ELSE [err |-> "none", rebal |-> RZero, t1_cash |-> t1_cash, t2_cash |-> t2_cash]

\* the rebalancing decision of _process_timestep on the grown positions
\* (lines 60-71)
Decide(t1_cash, t2_cash, t1_pct, t1_ratio, rebalance_rate) ==
    IF RebalanceEnabled(rebalance_rate)
       /\ RGt(t1_pct, RAdd(t1_ratio, rebalance_rate))
    THEN _rebalance_sell_t1(t1_cash, t2_cash, t1_pct, t1_ratio)
    ELSE IF RebalanceEnabled(rebalance_rate)
            /\ RLt(t1_pct, RSub(t1_ratio, rebalance_rate))
    THEN _rebalance_sell_t2(t1_cash, t2_cash, t1_pct, t1_ratio)
    ELSE [err |-> "none", rebal |-> RZero, t1_cash |-> t1_cash, t2_cash |-> t2_cash]

DecideGrown(t1_cash, t2_cash, t1_ratio, rebalance_rate) ==
    Decide(t1_cash, t2_cash, Fraction(t1_cash, RAdd(t1_cash, t2_cash)), t1_ratio,
           rebalance_rate)

\* _process_timestep: t1_prices and t2_prices are the two-element slices
\* [i-1 : i+1]; returns (t1_cash, t2_cash, rebal) or raises
_process_timestep(t1_prices, t2_prices, t1_prev, t2_prev, t1_ratio, rebalance_rate) ==
    DecideGrown(RMul(t1_prev, RAdd(ROne, StepReturn(t1_prices))),
                RMul(t2_prev, RAdd(ROne, StepReturn(t2_prices))),
                t1_ratio, rebalance_rate)

Zeros(n) == [k \in 1..n |-> RZero]

\* run_strategy_numba up to the loop: the arrays after lines 20-25
StrategyStart(t1_prices, t2_prices, t1_ratio, rebalance_rate, starting_cash) ==
    LET n == Len(t1_prices) IN
    [t1_prices |-> t1_prices, t2_prices |-> t2_prices, t1_ratio |-> t1_ratio,
     rebalance_rate |-> rebalance_rate, starting_cash |-> starting_cash,
     n |-> n, i |-> 1,
     t1_cash |-> SetAt(Zeros(n), 0, RMul(starting_cash, t1_ratio)),
     t2_cash |-> SetAt(Zeros(n), 0, RMul(starting_cash, RSub(ROne, t1_ratio))),
     rebalance |-> Zeros(n), total_cash |-> <<>>, pc |-> "loop"]

\* the assignment t1_cash[i], t2_cash[i], rebalance[i] = r, or the exception
StoreStep(s, r) ==
    IF r.err # "none"
    THEN [s EXCEPT !.pc = "raised"]
    ELSE [s EXCEPT !.t1_cash = SetAt(s.t1_cash, s.i, r.t1_cash),
                   !.t2_cash = SetAt(s.t2_cash, s.i, r.t2_cash),
                   !.rebalance = SetAt(s.rebalance, s.i, r.rebal),
                   !.i = s.i + 1]

\* one iteration of "for i in range(1, n)"
StrategyStep(s) ==
    StoreStep(s, _process_timestep(SubSeq(s.t1_prices, s.i, s.i + 1),
                                   SubSeq(s.t2_prices, s.i, s.i + 1),
                                   At(s.t1_cash, s.i - 1), At(s.t2_cash, s.i - 1),
                                   s.t1_ratio, s.rebalance_rate))

\* after the loop: total_cash = t1_cash + t2_cash and the return
StrategyFinish(s) ==
    [s EXCEPT !.total_cash = [k \in 1..s.n |-> RAdd(s.t1_cash[k], s.t2_cash[k])],
              !.pc = "done"]

RECURSIVE StrategyLoop(_)
StrategyLoop(s) ==
    IF s.pc # "loop" THEN s
    ELSE IF s.i < s.n THEN StrategyLoop(StrategyStep(s))
    ELSE StrategyFinish(s)

\* run_strategy_numba as a function: the finished (or raised) run
run_strategy_numba(t1_prices, t2_prices, t1_ratio, rebalance_rate, starting_cash) ==
    StrategyLoop(StrategyStart(t1_prices, t2_prices, t1_ratio, rebalance_rate,
                               starting_cash))

\* the worked example of the documentation: asset 1 grows 10% a step, asset 2
\* is flat
ScenarioT1 == <<RInt(100), RInt(110), RInt(121)>>
ScenarioT2 == <<RInt(100), RInt(100), RInt(100)>>

-----------------------------------------------------------------------------
(* Float values that are not finite: NaN is <<0, 0>>, +inf <<1, 0>>,       *)
(* -inf <<-1, 0>>; SQL NULL (Python None) is the empty tuple.              *)

NaN == <<0, 0>>
Inf == <<1, 0>>
NULL == <<>>
IsNaN(x) == x = NaN
IsFinite(x) == x[2] # 0
\* x < y on the extended values, for x and y not NaN
ELt(x, y) == x[1] * y[2] < y[1] * x[2]
\* numpy float division x / y, which yields inf or NaN on a zero divisor
NpDiv(x, y) ==
    IF y # RZero THEN RDiv(x, y)
    ELSE IF x = RZero THEN NaN
    ELSE IF x[1] > 0 THEN Inf ELSE <<-1, 0>>

RECURSIVE SeqSum(_)
SeqSum(q) == IF q = <<>> THEN RZero ELSE RAdd(Head(q), SeqSum(Tail(q)))

RECURSIVE SelectNotNaN(_)
SelectNotNaN(q) ==
    IF q = <<>> THEN <<>>
    ELSE IF IsNaN(Head(q)) THEN SelectNotNaN(Tail(q))
    ELSE <<Head(q)>> \o SelectNotNaN(Tail(q))

\* Series.min(): the least value, NaN skipped; NaN when nothing is left
RECURSIVE MinOf(_)
MinOf(q) ==
    IF Len(q) = 1 THEN Head(q)
    ELSE LET m == MinOf(Tail(q)) IN IF ELt(Head(q), m) THEN Head(q) ELSE m
SeriesMin(q) == LET v == SelectNotNaN(q) IN IF v = <<>> THEN NaN ELSE MinOf(v)

\* Series.pct_change(): the first entry is NaN
pct_change(series) ==
    [k \in 1..Len(series) |->
        IF k = 1 THEN NaN
        ELSE LET q == NpDiv(series[k], series[k - 1]) IN
             IF IsFinite(q) THEN RSub(q, ROne) ELSE q]

-----------------------------------------------------------------------------
(* src/calculations.py, performance metrics (lines 19-48) *)

\* mean and sample variance (ddof = 1) of at least two finite values
Mean(q) == RDiv(SeqSum(q), RInt(Len(q)))
SumSqDev(q, mean) ==
    SeqSum([k \in 1..Len(q) |-> RMul(RSub(q[k], mean), RSub(q[k], mean))])
Variance(q) == RDiv(SumSqDev(q, Mean(q)), RInt(Len(q) - 1))

\* sign(mean) * 252 * mean^2 / var
SignedSquare(mean, var) ==
    IF mean[1] < 0 THEN RNeg(RDiv(RMul(RInt(252), RMul(mean, mean)), var))
    ELSE RDiv(RMul(RInt(252), RMul(mean, mean)), var)

\* a Sharpe ratio without the std_ret == 0 test: 0 / 0 is NaN
NaNOnZeroStd(mean, var) == IF var = RZero THEN NaN ELSE SignedSquare(mean, var)

\* if std_ret == 0: return 0.0
SharpeOfMoments(mean, var) == IF var = RZero THEN RZero ELSE SignedSquare(mean, var)

SharpeOfExcess(excess_returns) ==
    IF Len(excess_returns) < 2
       \/ \E k \in 1..Len(excess_returns) : ~IsFinite(excess_returns[k])
    THEN NaN
    ELSE SharpeOfMoments(Mean(excess_returns), Variance(excess_returns))

\* returns - risk_free_rate / 252
Excess(returns, risk_free_rate) ==
    [k \in 1..Len(returns) |->
        IF IsFinite(returns[k])
        THEN RSub(returns[k], RDiv(risk_free_rate, RInt(252)))
        ELSE returns[k]]

\* calculate_sharpe.  The result mean / std * sqrt(252) is irrational, so the
\* model holds its signed square sign(s) * s^2 = sign(mean) * 252 * mean^2 /
\* var, a strictly increasing function of the result; 0.0 (std == 0) and NaN
\* (fewer than two returns, or a return that is not finite) are themselves.
calculate_sharpe(series, risk_free_rate) ==
    SharpeOfExcess(Excess(SelectNotNaN(pct_change(series)), risk_free_rate))

\* pandas Timestamps are <<day, second of the day>>
Days(start_date, end_date) ==
    IF end_date[2] >= start_date[2] THEN end_date[1] - start_date[1]
    ELSE end_date[1] - start_date[1] - 1

\* the cagr (last / first) ** (1 / n_years) - 1 is irrational: the model holds
\* <<numerator, denominator, days>> of last / first and the day count, which
\* determine it
CagrOf(ratio, days) == <<ratio[1], ratio[2], days>>
Cagr(total_cash, days) ==
    CagrOf(NpDiv(total_cash[Len(total_cash)], total_cash[1]), days)

MetricsForDays(total_cash, days, rebalance_count) ==
    IF days = 0 THEN [err |-> "ZeroDivisionError"]
    ELSE [err |-> "none",
          sharpe |-> calculate_sharpe(total_cash, RZero),
          num_rebalances |-> rebalance_count,
          max_drawdown |-> SeriesMin(pct_change(total_cash)),
          cagr |-> Cagr(total_cash, days)]

\* calculate_metrics of src/calculations.py: 1 / n_years raises
\* ZeroDivisionError when the two dates are less than a day apart
calculate_metrics(total_cash, start_date, end_date, rebalance_count) ==
    MetricsForDays(total_cash, Days(start_date, end_date), rebalance_count)

-----------------------------------------------------------------------------
(* Cache store: src/core/database.py and src/calculations.py lines 56-142 *)

\* hashlib.sha256(...).hexdigest(), taken as injective: the digest is
\* represented by its preimage
sha256(param_str) == <<"sha256", param_str>>

\* json.dumps(params, sort_keys=True): the key/value pairs in key order
JsonDumpsSorted(start_date, end_date, ticker1, ticker2, t1_ratio, rebalance_rate, starting_cash) ==
    <<"end_date", end_date, "rebalance_rate", rebalance_rate,
      "start_date", start_date, "starting_cash", starting_cash,
      "t1_ratio", t1_ratio, "ticker1", ticker1, "ticker2", ticker2>>

\* make_param_hash: seven parameters
make_param_hash(start_date, end_date, ticker1, ticker2, t1_ratio, rebalance_rate, starting_cash) ==
    sha256(JsonDumpsSorted(start_date, end_date, ticker1, ticker2, t1_ratio,
                           rebalance_rate, starting_cash))

\* a Python call of make_param_hash with the positional arguments argv: any
\* other number of arguments than seven raises TypeError
Call_make_param_hash(argv) ==
    IF Len(argv) # 7 THEN [err |-> "TypeError"]
    ELSE [err |-> "none",
          hash |-> make_param_hash(argv[1], argv[2], argv[3], argv[4], argv[5],
                                   argv[6], argv[7])]

\* binding a Python float to a REAL column: SQLite stores NaN as NULL
SqlBind(x) == IF x[1] = 0 /\ x[2] = 0 THEN NULL ELSE x

\* the number of "?" of the INSERT statement of save_results_batch: fourteen
\* columns in core/database.py (lines 91-95), twelve in calculations.py (134-138)
Placeholders(module) == IF module = "core" THEN 14 ELSE 12

\* the row that one VALUES (?, ..., ?) tuple of calculations.py inserts
RowOf12(t) ==
    [hash |-> t[1], start_date |-> t[2], end_date |-> t[3], ticker1 |-> t[4],
     ticker2 |-> t[5], t1_ratio |-> SqlBind(t[6]), rebalance_rate |-> SqlBind(t[7]),
     starting_cash |-> SqlBind(t[8]), sharpe |-> SqlBind(t[9]),
     num_rebalances |-> t[10], max_drawdown |-> SqlBind(t[11]),
     cagr |-> SqlBind(t[12])]

\* the row that one VALUES (?, ..., ?) tuple of core/database.py inserts
RowOf14(t) ==
    [hash |-> t[1], start_date |-> t[2], end_date |-> t[3], ticker1 |-> t[4],
     ticker2 |-> t[5], t1_ratio |-> SqlBind(t[6]), rebalance_rate |-> SqlBind(t[7]),
     starting_cash |-> SqlBind(t[8]), sharpe |-> SqlBind(t[9]),
     num_rebalances |-> t[10], max_drawdown |-> SqlBind(t[11]),
     max_weekly_drawdown |-> SqlBind(t[12]),
     max_monthly_drawdown |-> SqlBind(t[13]), cagr |-> SqlBind(t[14])]

RowOf(module, t) == IF module = "core" THEN RowOf14(t) ELSE RowOf12(t)

HasHash(tbl, h) == \E k \in 1..Len(tbl) : tbl[k].hash = h

\* a faulty insert: INSERT OR REPLACE, the row with the hash is replaced
InsertOrReplace(tbl, row) ==
    IF HasHash(tbl, row.hash)
    THEN [k \in 1..Len(tbl) |-> IF tbl[k].hash = row.hash THEN row ELSE tbl[k]]
    ELSE Append(tbl, row)

\* INSERT OR IGNORE of one row: a row whose hash is present (hash TEXT UNIQUE)
\* is skipped
InsertOrIgnore(tbl, row) == IF HasHash(tbl, row.hash) THEN tbl ELSE Append(tbl, row)

\* conn.executemany: the statement once per tuple, in order; a tuple with
\* another number of values than placeholders raises ProgrammingError
RECURSIVE ExecuteMany(_, _, _)
ExecuteMany(module, tbl, results) ==
    IF results = <<>> THEN [err |-> "none", table |-> tbl]
    ELSE IF Len(Head(results)) # Placeholders(module)
    THEN [err |-> "ProgrammingError", table |-> tbl]
    ELSE ExecuteMany(module, InsertOrIgnore(tbl, RowOf(module, Head(results))),
                     Tail(results))

\* executemany and commit: an exception leaves the transaction uncommitted and
\* the table as it was
Committed(tbl, done) ==
    IF done.err # "none" THEN [err |-> done.err, table |-> tbl] ELSE done

\* a faulty save that rewrites the table from the batch
RewritingBatch(module, tbl, results, flt) ==
    IF results = <<>> THEN [err |-> "none", table |-> tbl]
    ELSE IF flt = "write" THEN [err |-> "OperationalError", table |-> tbl]
    ELSE Committed(tbl, ExecuteMany(module, <<>>, results))

\* save_results_batch: nothing is touched for an empty batch; flt is the
\* failing store operation of the environment
save_results_batch(module, tbl, results, flt) ==
    IF results = <<>> THEN [err |-> "none", table |-> tbl]
    ELSE IF flt = "write" THEN [err |-> "OperationalError", table |-> tbl]
    ELSE Committed(tbl, ExecuteMany(module, tbl, results))

\* float(row[k]) of get_cached_result: TypeError on None
PyFloatOk(v) == v # NULL

\* the dict get_cached_result of calculations.py builds from the fetched row
CachedDict12(row) ==
    IF PyFloatOk(row.sharpe) /\ PyFloatOk(row.max_drawdown) /\ PyFloatOk(row.cagr)
    THEN [err |-> "none", found |-> TRUE,
          sharpe |-> row.sharpe, num_rebalances |-> row.num_rebalances,
          max_drawdown |-> row.max_drawdown, cagr |-> row.cagr]
    ELSE [err |-> "TypeError"]

\* the dict get_cached_result of core/database.py builds from the fetched row
CachedDict14(row) ==
    IF /\ PyFloatOk(row.sharpe) /\ PyFloatOk(row.max_drawdown)
       /\ PyFloatOk(row.max_weekly_drawdown) /\ PyFloatOk(row.max_monthly_drawdown)
       /\ PyFloatOk(row.cagr)
    THEN [err |-> "none", found |-> TRUE,
          sharpe |-> row.sharpe, num_rebalances |-> row.num_rebalances,
          max_drawdown |-> row.max_drawdown,
          max_weekly_drawdown |-> row.max_weekly_drawdown,
          max_monthly_drawdown |-> row.max_monthly_drawdown, cagr |-> row.cagr]
    ELSE [err |-> "TypeError"]

CachedDict(module, row) ==
    IF module = "core" THEN CachedDict14(row) ELSE CachedDict12(row)

\* cur.fetchone(): the first row with the hash
FetchOne(tbl, hash_key) ==
    tbl[CHOOSE k \in 1..Len(tbl) :
            /\ tbl[k].hash = hash_key
            /\ \A l \in 1..(k - 1) : tbl[l].hash # hash_key]

\* a faulty lookup: no row is ever found
NeverCached(module, tbl, hash_key, flt) == [err |-> "none", found |-> FALSE]

\* get_cached_result: the dict of the row with the hash, or None
get_cached_result(module, tbl, hash_key, flt) ==
    IF flt = "read" THEN [err |-> "OperationalError"]
    ELSE IF ~HasHash(tbl, hash_key) THEN [err |-> "none", found |-> FALSE]
    ELSE CachedDict(module, FetchOne(tbl, hash_key))

\* get_db_connection: sqlite3.connect and CREATE TABLE IF NOT EXISTS
get_db_connection(flt) ==
    IF flt = "open" THEN [err |-> "OperationalError"] ELSE [err |-> "none"]

-----------------------------------------------------------------------------
(* Grid search: src/calculations.py lines 234-371, src/core/grid_search.py *)

\* the price tables of the model: index (Timestamps) and the two columns.
\* A is the documentation's example; B has A's first and last date and two
\* rows only.
Midnight(d) == <<d, 0>>
PriceTable(name) ==
    CASE name = "A" -> [index |-> <<Midnight(0), Midnight(1), Midnight(2)>>,
                        SPY |-> ScenarioT1, GLD |-> ScenarioT2]
      [] name = "B" -> [index |-> <<Midnight(0), Midnight(2)>>,
                        SPY |-> <<RInt(100), RInt(121)>>,
                        GLD |-> <<RInt(100), RInt(100)>>]
TableNames == {"A", "B"}

\* defaults of run_grid_search
DefaultTicker1 == "SPY"
DefaultTicker2 == "GLD"
DefaultStartingCash == RInt(10000)
DefaultTradeCost == RZero
DefaultRiskFreeRate == RZero

\* the values the grids of the model are made of
GridT1Values == {Rat(1, 4), Rat(1, 2)}
RebalanceAxis == <<Rat(1, 100), Rat(1, 2)>>

\* Timestamp.strftime("%Y-%m-%d"): the day, the time of day dropped
strftime(ts) == ts[1]

Column(df, ticker) == IF ticker = "SPY" THEN df.SPY ELSE df.GLD

RECURSIVE CountNonZero(_)
CountNonZero(q) ==
    IF q = <<>> THEN 0
    ELSE (IF Head(q) # RZero THEN 1 ELSE 0) + CountNonZero(Tail(q))

\* calculate_metrics on the result of run_strategy (lines 351-356)
MetricsOfRun(df, result) ==
    IF result.pc = "raised" THEN [err |-> "ZeroDivisionError"]
    ELSE calculate_metrics(result.total_cash, df.index[1], df.index[Len(df.index)],
                           CountNonZero(result.rebalance))

\* run_strategy and calculate_metrics as _process_params of calculations.py
\* runs them (lines 350-356)
ComputeMetrics(df, ticker1, ticker2, t1_ratio, rebalance_rate, starting_cash) ==
    MetricsOfRun(df, run_strategy_numba(Column(df, ticker1), Column(df, ticker2),
                                        t1_ratio, rebalance_rate, starting_cash))

\* ComputeMetrics tabulated over the price tables and grid values of the
\* model, with the default tickers and starting cash
MetricsMemo ==
    [d \in TableNames, t \in GridT1Values,
     b \in {RebalanceAxis[k] : k \in 1..Len(RebalanceAxis)} |->
        ComputeMetrics(PriceTable(d), DefaultTicker1, DefaultTicker2, t, b,
                       DefaultStartingCash)]

\* the metrics a miss computes for the cell (t1_ratio, rebalance_rate) of the
\* price table named df
ComputeCell(df, t1_ratio, rebalance_rate) == MetricsMemo[df, t1_ratio, rebalance_rate]

MetricsOf(m) ==
    [sharpe |-> m.sharpe, num_rebalances |-> m.num_rebalances,
     max_drawdown |-> m.max_drawdown, cagr |-> m.cagr]

ResultDict(rebalance_rate, t1_ratio, m) ==
    [rebalance_rate |-> rebalance_rate, t1_ratio |-> t1_ratio,
     sharpe |-> m.sharpe, num_rebalances |-> m.num_rebalances,
     max_drawdown |-> m.max_drawdown, cagr |-> m.cagr]

\* the positional arguments of the make_param_hash call of _process_params:
\* seven in calculations.py (line 341), nine in core/grid_search.py (131-141)
HashArgv(module, start_date, end_date, ticker1, ticker2, t1_ratio, rebalance_rate, starting_cash, trade_cost, risk_free_rate) ==
    LET seven == <<start_date, end_date, ticker1, ticker2, t1_ratio,
                   rebalance_rate, starting_cash>>
    IN  IF module = "core" THEN seven \o <<trade_cost, risk_free_rate>> ELSE seven

\* the miss branch of _process_params, given the computed metrics
MissResult(hash_key, metrics, start_date, end_date, rebalance_rate, t1_ratio, ticker1, ticker2, starting_cash) ==
    IF metrics.err # "none" THEN [err |-> metrics.err]
    ELSE [err |-> "none", hit |-> FALSE, key |-> hash_key,
          result_dict |-> ResultDict(rebalance_rate, t1_ratio, metrics),
          insert_tuple |->
              <<hash_key, start_date, end_date, ticker1, ticker2, t1_ratio,
                rebalance_rate, starting_cash, metrics.sharpe,
                metrics.num_rebalances, metrics.max_drawdown, metrics.cagr>>]

\* _process_params after the lookup: "if cached:" and the two branches
AfterLookup(hash_key, cached, df, start_date, end_date, rebalance_rate, t1_ratio, ticker1, ticker2, starting_cash) ==
    IF cached.err # "none" THEN [err |-> cached.err]
    ELSE IF cached.found
    THEN [err |-> "none", hit |-> TRUE, key |-> hash_key,
          result_dict |-> ResultDict(rebalance_rate, t1_ratio, cached),
          insert_tuple |-> <<>>]
    ELSE MissResult(hash_key, ComputeCell(df, t1_ratio, rebalance_rate),
                    start_date, end_date, rebalance_rate, t1_ratio, ticker1,
                    ticker2, starting_cash)

\* _process_params after make_param_hash
AfterHash(module, h, tbl, flt, df, start_date, end_date, rebalance_rate, t1_ratio, ticker1, ticker2, starting_cash) ==
    IF h.err # "none" THEN [err |-> h.err]
    ELSE AfterLookup(h.hash, get_cached_result(module, tbl, h.hash, flt), df,
                     start_date,
                     end_date, rebalance_rate, t1_ratio, ticker1, ticker2,
                     starting_cash)

\* _process_params: (result_dict, insert_tuple), insert_tuple None on a hit
_process_params(module, tbl, flt, df, start_date, end_date, rebalance_rate, t1_ratio, ticker1, ticker2, starting_cash, trade_cost, risk_free_rate) ==
    AfterHash(module,
              Call_make_param_hash(HashArgv(module, start_date, end_date, ticker1,
                                            ticker2, t1_ratio, rebalance_rate,
                                            starting_cash, trade_cost,
                                            risk_free_rate)),
              tbl, flt, df, start_date, end_date, rebalance_rate, t1_ratio, ticker1,
              ticker2, starting_cash)

-----------------------------------------------------------------------------
(* run_grid_search as a state machine.  One step is one store operation    *)
(* together with the local computation that follows it: the call up to the *)
(* loop, one _process_params, the batch insert and return.                 *)

Procs == {1, 2}
Modules == {"calculations", "core"}
Faults == {"none", "open", "read", "write"}

IsSorted(q) == \A k \in 1..(Len(q) - 1) : ~RLt(q[k + 1], q[k])
\* allocation grids: ascending, a value may repeat
T1Grids == {q \in UNION {[1..n -> GridT1Values] : n \in 0..MaxGrid} : IsSorted(q)}
\* threshold grids: the leading values of the axis
RebalanceGrids == {SubSeq(RebalanceAxis, 1, n) : n \in 1..Len(RebalanceAxis)}

GridArgs == [df : TableNames, t1_ratios : T1Grids, rebalance_ratios : RebalanceGrids]

Cells(c) == Len(c.t1_ratios) * Len(c.rebalance_ratios)
\* the cell the nested loops reach after k cells: outer loop over
\* rebalance_ratios, inner loop over t1_ratios
CellRebalanceRate(c, k) == At(c.rebalance_ratios, k \div Len(c.t1_ratios))
\* a faulty loop order: t1_ratios in the outer loop
OuterT1Ratio(c, k) == At(c.t1_ratios, k \div Len(c.rebalance_ratios))
CellT1Ratio(c, k) == At(c.t1_ratios, k % Len(c.t1_ratios))

Finished(c) == c.status \in {"returned", "raised"}
NumFinished == Cardinality({k \in 1..Len(log) : Finished(log[k])})

\* run_grid_search up to the loop (lines 30-32 of core/grid_search.py,
\* 271-273 of calculations.py)
StartCall(r, a) ==
    LET conn == get_db_connection(fault)
        df == PriceTable(a.df)
        base == [proc |-> r, df |-> a.df, t1_ratios |-> a.t1_ratios,
                 rebalance_ratios |-> a.rebalance_ratios,
                 start_date |-> strftime(df.index[1]),
                 end_date |-> strftime(df.index[Len(df.index)]),
                 k |-> 0, results |-> <<>>, hits |-> <<>>, to_insert |-> <<>>,
                 emptyAtStart |-> (table = <<>>), doneBefore |-> NumFinished,
                 atStart |-> table,
                 status |-> "loop", error |-> "none"]
    IN  IF conn.err # "none"
        THEN [base EXCEPT !.status = "raised", !.error = conn.err]
        ELSE base

Call(r) ==
    /\ cur[r] = 0
    /\ quota[r] > 0
    /\ \E a \in GridArgs :
         /\ log' = Append(log, StartCall(r, a))
         /\ cur' = [cur EXCEPT ![r] = IF log'[Len(log')].status = "raised"
                                      THEN 0 ELSE Len(log')]
    /\ quota' = [quota EXCEPT ![r] = @ - 1]
    /\ UNCHANGED <<table, impl, fault>>

\* one iteration of the loops of _process_grid
CellResult(c) ==
    _process_params(impl, table, fault, c.df, c.start_date, c.end_date,
                    CellRebalanceRate(c, c.k), CellT1Ratio(c, c.k),
                    DefaultTicker1, DefaultTicker2, DefaultStartingCash,
                    DefaultTradeCost, DefaultRiskFreeRate)

\* a faulty loop body: a cell served from the cache is not appended to results
AfterCellSkippingHits(c, p) ==
    IF p.err # "none"
    THEN [c EXCEPT !.status = "raised", !.error = p.err]
    ELSE IF p.hit
    THEN [c EXCEPT !.k = c.k + 1, !.hits = Append(c.hits, p.hit)]
    ELSE [c EXCEPT !.k = c.k + 1,
                   !.results = Append(c.results, p.result_dict),
                   !.hits = Append(c.hits, p.hit),
                   !.to_insert = Append(c.to_insert, p.insert_tuple)]

\* results.append(result_dict) and to_insert.append(insert_tuple), or the
\* exception that ends the call
AfterCell(c, p) ==
    IF p.err # "none"
    THEN [c EXCEPT !.status = "raised", !.error = p.err]
    ELSE [c EXCEPT !.k = c.k + 1,
                   !.results = Append(c.results, p.result_dict),
                   !.hits = Append(c.hits, p.hit),
                   !.to_insert = IF p.insert_tuple # <<>>
                                  THEN Append(c.to_insert, p.insert_tuple)
                                  ELSE c.to_insert]

\* a faulty loop body that saves what it has staged after every cell
ProcessCellAndSave(r) ==
    /\ cur[r] # 0
    /\ log[cur[r]].status = "loop"
    /\ log[cur[r]].k < Cells(log[cur[r]])
    /\ log' = [log EXCEPT ![cur[r]] = AfterCell(@, CellResult(@))]
    /\ cur' = [cur EXCEPT ![r] = IF log'[cur[r]].status = "raised" THEN 0 ELSE @]
    /\ table' = save_results_batch(impl, table, log'[cur[r]].to_insert, fault).table
    /\ UNCHANGED <<impl, fault, quota>>

\* a faulty loop body that saves what was staged when a cell raises
ProcessCellSavingOnError(r) ==
    /\ cur[r] # 0
    /\ log[cur[r]].status = "loop"
    /\ log[cur[r]].k < Cells(log[cur[r]])
    /\ log' = [log EXCEPT ![cur[r]] = AfterCell(@, CellResult(@))]
    /\ cur' = [cur EXCEPT ![r] = IF log'[cur[r]].status = "raised" THEN 0 ELSE @]
    /\ table' = IF log'[cur[r]].status = "raised"
                THEN save_results_batch(impl, table, log[cur[r]].to_insert, "none").table
                ELSE table
    /\ UNCHANGED <<impl, fault, quota>>

ProcessCell(r) ==
    /\ cur[r] # 0
    /\ log[cur[r]].status = "loop"
    /\ log[cur[r]].k < Cells(log[cur[r]])
    /\ log' = [log EXCEPT ![cur[r]] = AfterCell(@, CellResult(@))]
    /\ cur' = [cur EXCEPT ![r] = IF log'[cur[r]].status = "raised" THEN 0 ELSE @]
    /\ UNCHANGED <<table, impl, fault, quota>>

\* after the loops: save_results_batch, conn.close() and the return
SaveAndReturn(r) ==
    /\ cur[r] # 0
    /\ LET c == log[cur[r]]
           w == save_results_batch(impl, table, c.to_insert, fault)
       IN  /\ c.status = "loop"
           /\ c.k = Cells(c)
           /\ table' = w.table
           /\ log' = [log EXCEPT ![cur[r]] =
                          IF w.err # "none"
                          THEN [c EXCEPT !.status = "raised", !.error = w.err]
                          ELSE [c EXCEPT !.status = "returned"]]
    /\ cur' = [cur EXCEPT ![r] = 0]
    /\ UNCHANGED <<impl, fault, quota>>

GridInit(q) ==
    /\ impl \in Modules
    /\ fault \in Faults
    /\ table = <<>>
    /\ log = <<>>
    /\ cur = [r \in Procs |-> 0]
    /\ quota = q
    /\ sim = Idle /\ hq = Idle /\ db = Idle /\ met = Idle

\* one process calling run_grid_search repeatedly
Init == GridInit([r \in Procs |-> IF r = 1 THEN MaxCalls ELSE 0])
\* two processes, one call each, on the same store
InitConc == GridInit([r \in Procs |-> 1])

Next ==
    \/ \E r \in Procs : Call(r) /\ UNCHANGED <<sim, hq, db, met>>
    \/ \E r \in Procs : ProcessCell(r) /\ UNCHANGED <<sim, hq, db, met>>
    \/ \E r \in Procs : SaveAndReturn(r) /\ UNCHANGED <<sim, hq, db, met>>

Spec == Init /\ [][Next]_vars
SpecConc == InitConc /\ [][Next]_vars

-----------------------------------------------------------------------------
(* The simulation as a state machine: inputs drawn at Init *)

T1PriceValues == {RInt(0), RInt(1), RInt(2)}
T2PriceValues == {RInt(0), RInt(1), RInt(2)}
T1RatioValues == {RZero, Rat(1, 4), Rat(1, 2), ROne}
RebalanceRateValues == {RZero, Rat(1, 100), Rat(1, 2)}
StartingCashValues == {RInt(10000)}

SimInit ==
    \/ \E n \in 1..MaxDays :
         \E p1 \in [1..n -> T1PriceValues], p2 \in [1..n -> T2PriceValues] :
           \E r \in T1RatioValues, b \in RebalanceRateValues, c \in StartingCashValues :
             sim = StrategyStart(p1, p2, r, b, c)
    \/ \E b \in RebalanceRateValues :
         sim = StrategyStart(ScenarioT1, ScenarioT2, Rat(1, 2), b, RInt(10000))

Timestep ==
    /\ sim.pc = "loop"
    /\ sim.i < sim.n
    /\ sim' = StrategyStep(sim)

Finish ==
    /\ sim.pc = "loop"
    /\ sim.i = sim.n
    /\ sim' = StrategyFinish(sim)

OthersIdle ==
    /\ impl = "none" /\ fault = "none" /\ table = <<>> /\ log = <<>>
    /\ cur = <<>> /\ quota = <<>> /\ hq = Idle /\ db = Idle /\ met = Idle

InitStrategy == SimInit /\ OthersIdle

NextStrategy ==
    \/ Timestep /\ UNCHANGED <<impl, fault, table, log, cur, quota, hq, db, met>>
    \/ Finish /\ UNCHANGED <<impl, fault, table, log, cur, quota, hq, db, met>>

SpecStrategy == InitStrategy /\ [][NextStrategy]_vars

-----------------------------------------------------------------------------
(* run_strategy called with any arguments, invalid ones included.  numba    *)
(* compiles run_strategy_numba without bounds checks, so an index outside   *)
(* an array is undefined behaviour: the call may return arrays of arbitrary *)
(* content, end the process, or (bounds checks switched on) raise           *)
(* IndexError.                                                              *)

RunPriceValues == {RInt(1), RInt(2)}
RunPriceSeries == UNION {[1..n -> RunPriceValues] : n \in 0..MaxDays}
RunT1RatioValues == {Rat(-1, 4), Rat(1, 2), Rat(5, 4)}
RunStartingCashValues == {RInt(-10000), RZero, RInt(10000)}
\* the trade_cost a caller passes as a seventh argument, as
\* _compute_strategy_metrics of core/grid_search.py does; NULL when the call
\* has the six arguments of the signature
TradeCosts == {NULL, RZero, Rat(1, 1000)}

InitRun ==
    /\ \E p1, p2 \in RunPriceSeries :
         \E r \in RunT1RatioValues, c \in RunStartingCashValues, t \in TradeCosts :
           sim = [pc |-> "call", t1_prices |-> p1, t2_prices |-> p2,
                  t1_ratio |-> r, rebalance_rate |-> Rat(1, 100),
                  starting_cash |-> c, trade_cost |-> t]
    /\ OthersIdle

\* every index the loop uses lies inside its array: t1_cash[0] needs n >= 1,
\* t2_prices[i - 1 : i + 1][1] needs i < len(t2_prices) for every i in 1..n-1
IndicesInBounds(t1_prices, t2_prices) ==
    /\ Len(t1_prices) >= 1
    /\ Len(t1_prices) = 1 \/ Len(t2_prices) >= Len(t1_prices)

\* the call with every index in bounds: the first n values of t2_prices are
\* used, and none of them when n = 1 (the loop body does not run)
Simulate ==
    /\ sim.pc = "call"
    /\ sim.trade_cost = NULL
    /\ IndicesInBounds(sim.t1_prices, sim.t2_prices)
    /\ sim' = run_strategy_numba(sim.t1_prices,
                                 IF Len(sim.t1_prices) = 1 THEN sim.t1_prices
                                 ELSE SubSeq(sim.t2_prices, 1, Len(sim.t1_prices)),
                                 sim.t1_ratio, sim.rebalance_rate,
                                 sim.starting_cash)

\* the call with an index out of bounds
SimulateOutOfBounds ==
    /\ sim.pc = "call"
    /\ sim.trade_cost = NULL
    /\ ~IndicesInBounds(sim.t1_prices, sim.t2_prices)
    /\ \E outcome \in {"done", "crashed", "raised"} :
         sim' = [pc |-> outcome, t1_prices |-> sim.t1_prices,
                 t2_prices |-> sim.t2_prices, t1_ratio |-> sim.t1_ratio,
                 rebalance_rate |-> sim.rebalance_rate,
                 starting_cash |-> sim.starting_cash, undefined |-> TRUE]

\* the call with a trade_cost: run_strategy has six parameters and
\* run_strategy_numba five, none of them a trade cost, so a seventh positional
\* argument raises TypeError before anything runs
TooManyArguments ==
    /\ sim.pc = "call"
    /\ sim.trade_cost # NULL
    /\ sim' = [sim EXCEPT !.pc = "type_error"]

NextRun ==
    \/ Simulate /\ UNCHANGED <<impl, fault, table, log, cur, quota, hq, db, met>>
    \/ SimulateOutOfBounds /\ UNCHANGED <<impl, fault, table, log, cur, quota, hq, db, met>>
    \/ TooManyArguments /\ UNCHANGED <<impl, fault, table, log, cur, quota, hq, db, met>>

SpecRun == InitRun /\ [][NextRun]_vars

-----------------------------------------------------------------------------
(* The cache key as a state machine: two parameter sets drawn at Init, keyed *)
(* as _process_params of the chosen module keys them                         *)

ParamFields == <<"start_date", "end_date", "ticker1", "ticker2", "t1_ratio",
                 "rebalance_rate", "starting_cash", "trade_cost",
                 "risk_free_rate">>
ParamSets ==
    [start_date : {0, 1}, end_date : {2, 3}, ticker1 : {"SPY", "QQQ"},
     ticker2 : {"GLD", "TLT"}, t1_ratio : {Rat(1, 4), Rat(1, 2)},
     rebalance_rate : {Rat(1, 100), Rat(1, 2)},
     starting_cash : {RInt(10000), RInt(20000)},
     trade_cost : {RZero, Rat(1, 1000)}, risk_free_rate : {RZero, Rat(1, 50)}]

\* the fields in which two parameter sets differ
Differing(p, q) == {k \in 1..Len(ParamFields) : p[ParamFields[k]] # q[ParamFields[k]]}

\* hash_key = make_param_hash(...) of _process_params for the parameter set p
KeyFor(module, p) ==
    Call_make_param_hash(HashArgv(module, p.start_date, p.end_date, p.ticker1,
                                  p.ticker2, p.t1_ratio, p.rebalance_rate,
                                  p.starting_cash, p.trade_cost,
                                  p.risk_free_rate))

InitHash ==
    /\ impl \in Modules
    /\ \E p, q \in ParamSets :
         /\ Cardinality(Differing(p, q)) <= 1
         /\ hq = [pc |-> "start", p |-> p, q |-> q]
    /\ fault = "none" /\ table = <<>> /\ log = <<>> /\ cur = <<>> /\ quota = <<>>
    /\ sim = Idle /\ db = Idle /\ met = Idle

HashFirst ==
    /\ hq.pc = "start"
    /\ hq' = [pc |-> "first", p |-> hq.p, q |-> hq.q, kp |-> KeyFor(impl, hq.p)]

HashSecond ==
    /\ hq.pc = "first"
    /\ hq' = [pc |-> "done", p |-> hq.p, q |-> hq.q, kp |-> hq.kp,
              kq |-> KeyFor(impl, hq.q)]

NextHash ==
    \/ HashFirst /\ UNCHANGED <<sim, impl, fault, table, log, cur, quota, db, met>>
    \/ HashSecond /\ UNCHANGED <<sim, impl, fault, table, log, cur, quota, db, met>>

SpecHash == InitHash /\ [][NextHash]_vars

-----------------------------------------------------------------------------
(* save_results_batch as a state machine: batches of insert tuples applied  *)
(* to the table of the chosen module, each batch possibly a second time     *)

\* the first eight values of the insert tuple of the cell (t1_ratio, 0.01)
InsertHead(t1_ratio) ==
    <<make_param_hash(0, 2, DefaultTicker1, DefaultTicker2, t1_ratio,
                      RebalanceAxis[1], DefaultStartingCash),
      0, 2, DefaultTicker1, DefaultTicker2, t1_ratio, RebalanceAxis[1],
      DefaultStartingCash>>

\* the metric columns of an insert tuple: the values computed for the cell
\* (1/2, 1/100) of the price tables "A" and "B"; core/database.py has the
\* weekly and monthly drawdown columns in addition
BatchMetrics(module) ==
    IF module = "core"
    THEN {<<RZero, 2, Rat(-1, 20), Rat(-1, 20), Rat(-1, 20), <<441, 400, 2>>>>,
          <<NaN, 1, RZero, RZero, RZero, <<221, 200, 2>>>>}
    ELSE {<<RZero, 2, Rat(1, 20), <<441, 400, 2>>>>,
          <<NaN, 1, Rat(21, 200), <<221, 200, 2>>>>}

BatchTuples(module) ==
    {InsertHead(t) \o m : t \in GridT1Values, m \in BatchMetrics(module)}

Batches(module) == UNION {[1..n -> BatchTuples(module)] : n \in 0..MaxBatch}

InitDb ==
    /\ impl \in Modules
    /\ table = <<>>
    /\ db = [pc |-> "start"]
    /\ fault = "none" /\ log = <<>> /\ cur = <<>> /\ quota = <<>>
    /\ sim = Idle /\ hq = Idle /\ met = Idle

\* db records the call: the table before it, the batch and the exception
Saved(pc, before, batch, w) ==
    /\ table' = w.table
    /\ db' = [pc |-> pc, before |-> before, batch |-> batch, err |-> w.err]

\* save_results_batch(conn, batch) for any batch
DbSave ==
    \E batch \in Batches(impl) :
        Saved("saved", table, batch, save_results_batch(impl, table, batch, fault))

\* save_results_batch(conn, batch) with the batch of the call before
DbRepeat ==
    /\ db.pc = "saved"
    /\ Saved("repeated", table, db.batch,
             save_results_batch(impl, table, db.batch, fault))

\* get_db_connection(db_path) on the store: the schema statement leaves an
\* existing table as it is
DbConnect ==
    /\ db' = [pc |-> "connected", err |-> get_db_connection(fault).err]
    /\ table' = table

\* get_cached_result(conn, hash_key) for the key of any cell of the batches
DbLookup ==
    /\ \E t \in GridT1Values :
         db' = [pc |-> "looked", key |-> InsertHead(t)[1],
                cached |-> get_cached_result(impl, table, InsertHead(t)[1], fault)]
    /\ table' = table

NextDb ==
    \/ DbSave /\ UNCHANGED <<sim, impl, fault, log, cur, quota, hq, met>>
    \/ DbRepeat /\ UNCHANGED <<sim, impl, fault, log, cur, quota, hq, met>>
    \/ DbConnect /\ UNCHANGED <<sim, impl, fault, log, cur, quota, hq, met>>
    \/ DbLookup /\ UNCHANGED <<sim, impl, fault, log, cur, quota, hq, met>>

SpecDb == InitDb /\ [][NextDb]_vars

-----------------------------------------------------------------------------
(* Properties of the grid search (Spec, SpecConc) *)

CallIds == 1..Len(log)
AxisValues == {RebalanceAxis[k] : k \in 1..Len(RebalanceAxis)}
Returned(n) == log[n].status = "returned"
Miss(n, k) == k \in 1..Len(log[n].hits) /\ ~log[n].hits[k]
Hit(n, k) == k \in 1..Len(log[n].hits) /\ log[n].hits[k]
SameArgs(n1, n2) ==
    /\ log[n1].df = log[n2].df
    /\ log[n1].t1_ratios = log[n2].t1_ratios
    /\ log[n1].rebalance_ratios = log[n2].rebalance_ratios

\* how often the pair (a, b) is requested by the grids of call c, and how many
\* rows of its results carry it
Requested(c, a, b) ==
    Cardinality({ij \in (1..Len(c.t1_ratios)) \X (1..Len(c.rebalance_ratios)) :
                    c.t1_ratios[ij[1]] = a /\ c.rebalance_ratios[ij[2]] = b})
RowsFor(c, a, b) ==
    Cardinality({k \in 1..Len(c.results) :
                    c.results[k].t1_ratio = a /\ c.results[k].rebalance_rate = b})
FullRows(c) ==
    /\ Len(c.results) = Cells(c)
    /\ \A a \in GridT1Values, b \in AxisValues : RowsFor(c, a, b) = Requested(c, a, b)

\* C1: the rows a call of run_grid_search returns are m*n in number and hold
\* every pair of the Cartesian product of its grids once per request, hits and
\* misses alike: no cell is dropped and none is duplicated
C1_GridComplete == \A n \in CallIds : Returned(n) => FullRows(log[n])

\* a returned sweep over a 2 x 2 grid of distinct values with a hit and a miss
C1_Witness ==
    \E n \in CallIds :
        /\ Returned(n)
        /\ Len(log[n].results) = 4
        /\ log[n].t1_ratios[1] # log[n].t1_ratios[2]
        /\ \E k1, k2 \in 1..4 : Hit(n, k1) /\ Miss(n, k2)

\* C2: of two calls with identical inputs, the first on an empty store, the
\* second returns the rows the first returned and serves every cell from the
\* cache
C2_IdempotentCache ==
    \A n1, n2 \in CallIds :
        (/\ n1 < n2
         /\ fault = "none"
         /\ log[n1].emptyAtStart /\ Returned(n1)
         /\ SameArgs(n1, n2)
         /\ Finished(log[n2]))
        => /\ Returned(n2)
           /\ log[n2].results = log[n1].results
           /\ \A k \in 1..Cells(log[n2]) : Hit(n2, k)

\* the parameter tuple of the k-th cell of call n: the price table, dates,
\* tickers and cash of the call, with the cell's allocation and threshold
ParamTuple(n, k) ==
    <<log[n].df, log[n].results[k].t1_ratio, log[n].results[k].rebalance_rate>>
MissIds(n) == {k \in 1..Len(log[n].hits) : ~log[n].hits[k]}
MissedTuples(n) == {ParamTuple(n, k) : k \in MissIds(n)}
ComputedTwice(n1, k1, n2, k2) ==
    /\ Miss(n1, k1) /\ Miss(n2, k2)
    /\ <<n1, k1>> # <<n2, k2>>
    /\ ParamTuple(n1, k1) = ParamTuple(n2, k2)
CellIds == 1..(MaxGrid * Len(RebalanceAxis))

C4_NoStaleEntry ==
    \A n \in CallIds : \A k \in CellIds :
        Hit(n, k) =>
            MetricsOf(log[n].results[k]) =
                MetricsOf(ComputeCell(log[n].df, log[n].results[k].t1_ratio,
                                      log[n].results[k].rebalance_rate))

\* the cache key of the k-th cell of call n
KeyOf(n, k) ==
    make_param_hash(log[n].start_date, log[n].end_date, DefaultTicker1,
                    DefaultTicker2, log[n].results[k].t1_ratio,
                    log[n].results[k].rebalance_rate, DefaultStartingCash)
BothMissed(n1, n2, h) ==
    /\ n1 # n2
    /\ \E k \in CellIds : Miss(n1, k) /\ KeyOf(n1, k) = h
    /\ \E k \in CellIds : Miss(n2, k) /\ KeyOf(n2, k) = h
StoredRows(h) == {k \in 1..Len(table) : table[k].hash = h}

\* C7: when two executions on one store have both missed and computed the same
\* key, each of them ends by returning its full rows, and when both have ended
\* the store holds exactly one row for the key
C7_ConcurrentSameKey ==
    \A n1, n2 \in CallIds :
        \A h \in {KeyOf(n1, k) : k \in 1..Len(log[n1].results)} :
            (fault = "none" /\ BothMissed(n1, n2, h))
            => /\ Finished(log[n1]) => (Returned(n1) /\ FullRows(log[n1]))
               /\ (Finished(log[n1]) /\ Finished(log[n2]))
                  => Cardinality(StoredRows(h)) = 1

\* C8: with a store that cannot be opened, read or written, every call of
\* run_grid_search that ends, ends by returning the full table of results
C8_CacheFailureTolerated ==
    \A n \in CallIds :
        (fault # "none" /\ Finished(log[n])) => (Returned(n) /\ FullRows(log[n]))

-----------------------------------------------------------------------------
(* Properties of the cache key (SpecHash) and of the batch insert (SpecDb) *)

\* C5: the keys of two parameter sets are equal exactly when the sets agree in
\* all nine fields start_date, end_date, ticker1, ticker2, t1_ratio,
\* rebalance_rate, starting_cash, trade_cost and risk_free_rate
C5_KeyOfNineFields ==
    hq.pc = "done" =>
        /\ hq.kp.err = "none" /\ hq.kq.err = "none"
        /\ (hq.kp = hq.kq) <=> (hq.p = hq.q)

OneRowPerHash(tbl) ==
    \A k1, k2 \in 1..Len(tbl) : tbl[k1].hash = tbl[k2].hash => k1 = k2
KeepsRows(before, after) ==
    /\ Len(before) <= Len(after)
    /\ \A k \in 1..Len(before) : after[k] = before[k]
HoldsBatch(tbl, batch) == \A k \in 1..Len(batch) : HasHash(tbl, batch[k][1])

\* C6: save_results_batch does not raise, leaves every row that was stored as
\* it was, and leaves the table with one row per hash, the hashes of the batch
\* among them; the same batch applied again leaves the table unchanged
C6_InsertIfAbsent ==
    db.pc \in {"saved", "repeated"} =>
        /\ db.err = "none"
        /\ KeepsRows(db.before, table)
        /\ OneRowPerHash(table)
        /\ HoldsBatch(table, db.batch)
        /\ db.pc = "repeated" => table = db.before

\* a batch that repeats a hash with other metrics, on a table that held the
\* hash with other metrics than the batch's first tuple, applied twice
C6_Witness ==
    /\ db.pc = "repeated"
    /\ Len(db.batch) >= 2
    /\ db.batch[1][1] = db.batch[2][1]
    /\ db.batch[1] # db.batch[2]
    /\ \E k \in 1..Len(table) :
         /\ table[k].hash = db.batch[1][1]
         /\ table[k] # RowOf(impl, db.batch[1])

-----------------------------------------------------------------------------
(* Properties of the simulation (SpecStrategy) *)

\* the timesteps the loop has stored so far (0-based, as in the source)
Processed == IF sim.pc = "idle" THEN {} ELSE 1..(sim.i - 1)
TotalAt(k) == RAdd(At(sim.t1_cash, k), At(sim.t2_cash, k))

\* C9: at every stored timestep whose rebalance entry is nonzero, the stored
\* asset-1 value divided by the stored total equals t1_ratio, whichever branch
\* (sell asset 1, sell asset 2) made the entry
C9_RebalanceRestoresTarget ==
    \A k \in Processed :
        At(sim.rebalance, k) # RZero =>
            /\ TotalAt(k) # RZero
            /\ RDiv(At(sim.t1_cash, k), TotalAt(k)) = sim.t1_ratio

\* a run in which the sell-asset-1 branch and the sell-asset-2 branch each
\* made a nonzero entry
C9_Witness ==
    /\ \E k \in Processed : RGt(At(sim.rebalance, k), RZero)
    /\ \E k \in Processed : RLt(At(sim.rebalance, k), RZero)

\* the worked example with the given drift band, after its first timestep
InScenario(rebalance_rate) ==
    /\ sim.pc # "idle"
    /\ sim.t1_prices = ScenarioT1 /\ sim.t2_prices = ScenarioT2
    /\ sim.t1_ratio = Rat(1, 2) /\ sim.starting_cash = RInt(10000)
    /\ sim.rebalance_rate = rebalance_rate
    /\ sim.i >= 2

StoredAtOne(t1_cash, t2_cash, rebalance) ==
    /\ At(sim.t1_cash, 1) = RInt(t1_cash)
    /\ At(sim.t2_cash, 1) = RInt(t2_cash)
    /\ At(sim.rebalance, 1) = RInt(rebalance)

\* C10 as stated: with rebalance_rate = 0 the worked example stores
\* cash1[1] = 5250, cash2[1] = 5250 and rebalance[1] = 250
C10_ZeroRateRebalances == InScenario(RZero) => StoredAtOne(5250, 5250, 250)

\* C10 amended: with rebalance_rate = 0 the guard "rebalance_rate > 0" skips
\* the band check and the worked example stores 5500, 5000 and 0; with
\* rebalance_rate = 0.01 the step rebalances and stores 5250, 5250 and 250
C10_ZeroRateNeverRebalances ==
    /\ InScenario(RZero) => StoredAtOne(5500, 5000, 0)
    /\ InScenario(Rat(1, 100)) => StoredAtOne(5250, 5250, 250)

\* the worked example with rebalance_rate = 0 has run to its end
C10_Witness == InScenario(RZero) /\ sim.pc = "done"

\* the positions of timestep k after growth and before the rebalancing
\* decision, from the stored positions of timestep k - 1
GrownT1(k) ==
    RMul(At(sim.t1_cash, k - 1),
         RAdd(ROne, StepReturn(SubSeq(sim.t1_prices, k, k + 1))))
GrownT2(k) ==
    RMul(At(sim.t2_cash, k - 1),
         RAdd(ROne, StepReturn(SubSeq(sim.t2_prices, k, k + 1))))

\* C11: at every stored timestep the two positions sum to what the two grown
\* positions summed to before the rebalancing decision, and the returned
\* total_cash is the sum of the two positions at every timestep
C11_CashConserved ==
    /\ \A k \in Processed : TotalAt(k) = RAdd(GrownT1(k), GrownT2(k))
    /\ sim.pc = "done" =>
         \A k \in 0..(sim.n - 1) : At(sim.total_cash, k) = TotalAt(k)

\* a finished run in which each branch moved cash
C11_Witness == sim.pc = "done" /\ C9_Witness

\* the asset-1 fraction of the grown positions of timestep k lies in the band
InBand(k) ==
    LET f == Fraction(GrownT1(k), RAdd(GrownT1(k), GrownT2(k))) IN
    /\ ~RLt(f, RSub(sim.t1_ratio, sim.rebalance_rate))
    /\ ~RGt(f, RAdd(sim.t1_ratio, sim.rebalance_rate))

\* starting_cash * share * p[k] / p[0]
BuyAndHold(share, prices, k) ==
    NpDiv(RMul(RMul(sim.starting_cash, share), At(prices, k)), At(prices, 0))
IsBuyAndHold ==
    \A k \in 0..(sim.n - 1) :
        /\ At(sim.rebalance, k) = RZero
        /\ At(sim.t1_cash, k) = BuyAndHold(sim.t1_ratio, sim.t1_prices, k)
        /\ At(sim.t2_cash, k) =
               BuyAndHold(RSub(ROne, sim.t1_ratio), sim.t2_prices, k)
NeverLeavesBand == sim.pc = "done" /\ \A k \in 1..(sim.n - 1) : InBand(k)

\* C12 as stated: a run whose asset-1 fraction never leaves the band makes no
\* rebalance and holds starting_cash * t1_ratio * p1[i] / p1[0] and
\* starting_cash * (1 - t1_ratio) * p2[i] / p2[0] at every timestep
C12_BuyAndHold == NeverLeavesBand => IsBuyAndHold

\* the first price of each asset and every price that a later price follows
\* is nonzero
NoZeroDivisor ==
    \A k \in {0} \cup 0..(sim.n - 2) :
        At(sim.t1_prices, k) # RZero /\ At(sim.t2_prices, k) # RZero

\* C12 amended: the same, for price paths whose first prices and whose prices
\* followed by a later price are nonzero; the worked example with rebalance_rate = 0.5 ends
\* with cash1 [5000, 5500, 6050], cash2 [5000, 5000, 5000], total
\* [10000, 10500, 11050]
C12_BuyAndHoldNonzeroPrices ==
    /\ (NeverLeavesBand /\ NoZeroDivisor) => IsBuyAndHold
    /\ (InScenario(Rat(1, 2)) /\ sim.pc = "done") =>
         /\ sim.t1_cash = <<RInt(5000), RInt(5500), RInt(6050)>>
         /\ sim.t2_cash = <<RInt(5000), RInt(5000), RInt(5000)>>
         /\ sim.total_cash = <<RInt(10000), RInt(10500), RInt(11050)>>
         /\ sim.rebalance = <<RZero, RZero, RZero>>

\* the worked example with rebalance_rate = 0.5 has run to its end inside the
\* band
C12_Witness == InScenario(Rat(1, 2)) /\ NeverLeavesBand /\ NoZeroDivisor

NonNegative(x) == ~RLt(x, RZero)
ValidInputs ==
    /\ NonNegative(sim.t1_ratio) /\ ~RGt(sim.t1_ratio, ROne)
    /\ NonNegative(sim.rebalance_rate)
    /\ RGt(sim.starting_cash, RZero)
    /\ \A k \in 1..sim.n :
         NonNegative(sim.t1_prices[k]) /\ NonNegative(sim.t2_prices[k])

\* C13: for t1_ratio in [0, 1], rebalance_rate >= 0, starting_cash > 0 and
\* prices >= 0, every stored t1_cash[i] and t2_cash[i] and every returned
\* total_cash[i] is >= 0
C13_NonNegativeCash ==
    (sim.pc # "idle" /\ ValidInputs) =>
        /\ \A k \in 0..(sim.i - 1) :
             NonNegative(At(sim.t1_cash, k)) /\ NonNegative(At(sim.t2_cash, k))
        /\ sim.pc = "done" =>
             \A k \in 0..(sim.n - 1) : NonNegative(At(sim.total_cash, k))

\* a finished run on valid inputs that grew, shrank to a zero price and
\* rebalanced in each direction
C13_Witness ==
    /\ sim.pc = "done" /\ ValidInputs
    /\ C9_Witness
    /\ \E k \in 1..sim.n : sim.t1_prices[k] = RZero \/ sim.t2_prices[k] = RZero

\* the arguments the specification has run_strategy reject
InvalidInput ==
    \/ Len(sim.t1_prices) = 0
    \/ Len(sim.t1_prices) # Len(sim.t2_prices)
    \/ ~RGt(sim.starting_cash, RZero)
    \/ RLt(sim.t1_ratio, RZero) \/ RGt(sim.t1_ratio, ROne)

\* C14: a call of run_strategy (with the arguments of its signature) with
\* empty or unequal-length price series, starting_cash <= 0 or t1_ratio
\* outside [0, 1] ends with an input error and not with a simulation result
C14_InvalidInputRejected ==
    (sim.pc \notin {"idle", "call", "type_error"} /\ InvalidInput)
    => sim.pc = "rejected"

\* the amount a rebalance at timestep k moved: the grown asset-1 position less
\* its target share of the total
SellAt(k) ==
    RSub(GrownT1(k), RMul(sim.t1_ratio, RAdd(GrownT1(k), GrownT2(k))))
RAbs(x) == IF RLt(x, RZero) THEN RNeg(x) ELSE x

\* C19: a call of the simulation with a trade_cost >= 0 runs, and at every
\* timestep with a rebalance the total after the rebalance is the total before
\* it less trade_cost * |sell|
C19_TradeCostApplied ==
    (sim.pc \notin {"idle", "call"} /\ "trade_cost" \in DOMAIN sim)
    => /\ sim.pc = "done"
       /\ \A k \in 1..(sim.n - 1) :
            At(sim.rebalance, k) # RZero =>
              TotalAt(k) = RSub(RAdd(GrownT1(k), GrownT2(k)),
                                RMul(sim.trade_cost, RAbs(SellAt(k))))

-----------------------------------------------------------------------------
(* src/core/metrics.py: drawdowns and calculate_metrics (lines 22-63) *)

\* the greatest value of a non-empty sequence without NaN
RECURSIVE MaxOf(_)
MaxOf(q) ==
    IF Len(q) = 1 THEN Head(q)
    ELSE LET m == MaxOf(Tail(q)) IN IF ELt(m, Head(q)) THEN Head(q) ELSE m

\* a cummax that holds the first value instead of the running maximum
FirstValueMax(series) == [k \in 1..Len(series) |-> series[1]]

\* Series.cummax(): the running maximum, NaN entries skipped and left NaN
cummax(series) ==
    [k \in 1..Len(series) |->
        IF IsNaN(series[k]) THEN NaN
        ELSE MaxOf(SelectNotNaN(SubSeq(series, 1, k)))]

\* (series - cumulative_max) / cumulative_max, elementwise
Drawdown(series, cumulative_max) ==
    [k \in 1..Len(series) |->
        IF IsNaN(series[k]) \/ IsNaN(cumulative_max[k]) THEN NaN
        ELSE NpDiv(RSub(series[k], cumulative_max[k]), cumulative_max[k])]

\* calculate_max_drawdown: drawdown.min(), NaN for an empty series
calculate_max_drawdown(series) == SeriesMin(Drawdown(series, cummax(series)))

\* seconds of a Timestamp since the midnight of day 0
Secs(t) == t[1] * 86400 + t[2]

\* the day of the k-th of n evenly spaced timestamps of
\* pd.date_range(start, end, periods = n), k = 1..n
DayOfPeriod(start_date, end_date, n, k) ==
    IF n = 1 THEN start_date[1]
    ELSE ((Secs(start_date) * (n - 1)
            + (k - 1) * (Secs(end_date) - Secs(start_date))) \div (n - 1))
         \div 86400

\* day 0 is Wednesday 2020-01-01.  'W' bins end on a Sunday (day 4, 11, ...)
\* and hold the whole of that Sunday; 'ME' bins are calendar months
MonthStarts == <<-31, 0, 31, 60, 91, 121>>
BinOf(rule, day) ==
    IF rule = "W" THEN (day + 2) \div 7
    ELSE Cardinality({m \in 1..Len(MonthStarts) : MonthStarts[m] <= day})

Reverse(q) == [k \in 1..Len(q) |-> q[Len(q) + 1 - k]]

\* the values whose bin holds no later value that is not NaN
RECURSIVE KeepLast(_, _, _)
KeepLast(values, bins, k) ==
    IF k > Len(values) THEN <<>>
    ELSE (IF ~IsNaN(values[k])
             /\ \A j \in (k + 1)..Len(values) :
                  bins[j] # bins[k] \/ IsNaN(values[j])
          THEN <<values[k]>> ELSE <<>>)
         \o KeepLast(values, bins, k + 1)

\* series.resample(rule).last() on the index date_range(start, end, periods):
\* the grouper sorts an index that runs backwards, and the last value of each
\* bin is kept.  Bins without a value hold NaN, which cummax and min skip, and
\* are left out.
resample_last(rule, total_cash, start_date, end_date) ==
    LET n == Len(total_cash)
        bins == [k \in 1..n |-> BinOf(rule, DayOfPeriod(start_date, end_date, n, k))]
    IN IF Secs(end_date) < Secs(start_date)
       THEN KeepLast(Reverse(total_cash), Reverse(bins), 1)
       ELSE KeepLast(total_cash, bins, 1)

calculate_max_weekly_drawdown(total_cash, start_date, end_date) ==
    calculate_max_drawdown(resample_last("W", total_cash, start_date, end_date))

calculate_max_monthly_drawdown(total_cash, start_date, end_date) ==
    calculate_max_drawdown(resample_last("ME", total_cash, start_date, end_date))

\* calculate_metrics of src/core/metrics.py.  The cagr is computed before the
\* record: 1 / n_years raises ZeroDivisionError when the dates are less than a
\* day apart, and nothing else raises.
core_calculate_metrics(total_cash, start_date, end_date, rebalance_count) ==
    IF Days(start_date, end_date) = 0 THEN [err |-> "ZeroDivisionError"]
    ELSE [err |-> "none",
          sharpe |-> calculate_sharpe(total_cash, RZero),
          num_rebalances |-> rebalance_count,
          max_drawdown |-> calculate_max_drawdown(total_cash),
          max_weekly_drawdown |->
              calculate_max_weekly_drawdown(total_cash, start_date, end_date),
          max_monthly_drawdown |->
              calculate_max_monthly_drawdown(total_cash, start_date, end_date),
          cagr |-> Cagr(total_cash, Days(start_date, end_date))]

\* a call of calculate_metrics with the positional arguments argv: both
\* modules define it with four parameters; total_cash[-1] of an empty array
\* raises IndexError
Call_calculate_metrics(module, argv) ==
    IF Len(argv) # 4 THEN [err |-> "TypeError"]
    ELSE IF Len(argv[1]) = 0 THEN [err |-> "IndexError"]
    ELSE IF module = "core"
    THEN core_calculate_metrics(argv[1], argv[2], argv[3], argv[4])
    ELSE calculate_metrics(argv[1], argv[2], argv[3], argv[4])

-----------------------------------------------------------------------------
(* The metrics functions as a state machine: a cash series, two dates and a *)
(* risk-free rate are drawn at Init, and one of the functions is called.    *)

MaxSeries == 3      \* longest cash series
CashValues == {RInt(-1), RZero, RInt(1), RInt(2), RInt(4)}
CashSeries == UNION {[1..n -> CashValues] : n \in 0..MaxSeries}
\* end dates before, on and after the start date (day 0); day 40 lies in the
\* next month
EndDays == {-1, 0, 9, 40}
\* annual risk-free rates: 0 and 2.52, which is 0.01 a trading day
RiskFreeRates == {RZero, Rat(63, 25)}

InitMetrics ==
    /\ \E m \in Modules, q \in CashSeries, e \in EndDays, r \in RiskFreeRates :
         met = [pc |-> "call", module |-> m, series |-> q,
                start_date |-> Midnight(0), end_date |-> Midnight(e),
                risk_free_rate |-> r, argc |-> 0,
                result |-> [err |-> "pending"]]
    /\ sim = Idle /\ impl = "none" /\ fault = "none" /\ table = <<>>
    /\ log = <<>> /\ cur = <<>> /\ quota = <<>> /\ hq = Idle /\ db = Idle

\* calculate_metrics(total_cash, start_date, end_date, rebalance_count) as
\* app.py calls it, or with risk_free_rate as a fifth argument as
\* _compute_strategy_metrics of core/grid_search.py calls it
CalculateMetrics ==
    /\ met.pc = "call"
    /\ \E argc \in {4, 5} :
         met' = [met EXCEPT
                   !.pc = "metrics", !.argc = argc,
                   !.result = Call_calculate_metrics(met.module,
                       SubSeq(<<met.series, met.start_date, met.end_date, 0,
                                met.risk_free_rate>>, 1, argc))]

\* calculate_sharpe(series, risk_free_rate), the same function in both modules
CalculateSharpe ==
    /\ met.pc = "call"
    /\ met' = [met EXCEPT
                 !.pc = "sharpe", !.argc = 2,
                 !.result = [err |-> "none",
                             sharpe |-> calculate_sharpe(met.series,
                                                         met.risk_free_rate)]]

\* calculate_max_drawdown(series) of core/metrics.py
CalculateMaxDrawdown ==
    /\ met.pc = "call"
    /\ met.module = "core"
    /\ met' = [met EXCEPT
                 !.pc = "drawdown", !.argc = 1,
                 !.result = [err |-> "none",
                             max_drawdown |-> calculate_max_drawdown(met.series)]]

NextMetrics ==
    \/ CalculateMetrics /\ UNCHANGED <<sim, impl, fault, table, log, cur, quota, hq, db>>
    \/ CalculateSharpe /\ UNCHANGED <<sim, impl, fault, table, log, cur, quota, hq, db>>
    \/ CalculateMaxDrawdown /\ UNCHANGED <<sim, impl, fault, table, log, cur, quota, hq, db>>

SpecMetrics == InitMetrics /\ [][NextMetrics]_vars

-----------------------------------------------------------------------------
(* Properties of the metrics functions *)

\* a call of calculate_metrics with its four arguments on a non-empty series
MetricsCalled == met.pc = "metrics" /\ met.argc = 4 /\ Len(met.series) >= 1

\* C15: calculate_metrics fails with an error, and returns no record, when the
\* first value of the cash series is <= 0 or the number of days between
\* start_date and end_date is <= 0
C15_MetricsFailOutsideDomain ==
    (/\ MetricsCalled
     /\ \/ ~RGt(met.series[1], RZero)
        \/ Days(met.start_date, met.end_date) <= 0)
    => met.result.err # "none"

\* the excess returns calculate_sharpe takes the standard deviation of
ExcessOf(series, risk_free_rate) ==
    Excess(SelectNotNaN(pct_change(series)), risk_free_rate)

\* the sample standard deviation is zero: at least two values, finite and equal
ZeroStd(q) ==
    /\ Len(q) >= 2
    /\ \A k \in 1..Len(q) : IsFinite(q[k]) /\ q[k] = q[1]

\* C16: calculate_sharpe returns 0.0, not NaN and no exception, whenever the
\* standard deviation of the excess daily returns is zero
C16_ZeroStdSharpeIsZero ==
    (met.pc = "sharpe" /\ ZeroStd(ExcessOf(met.series, met.risk_free_rate)))
    => met.result = [err |-> "none", sharpe |-> RZero]

\* calculate_sharpe has returned for a series that doubles every day, with a
\* nonzero risk-free rate
C16_Witness ==
    /\ met.pc = "sharpe"
    /\ met.series = <<RInt(1), RInt(2), RInt(4)>>
    /\ met.risk_free_rate = Rat(63, 25)
    /\ ZeroStd(ExcessOf(met.series, met.risk_free_rate))

\* the running maximum and the drawdown of the i-th value, by definition
RunningMaxAt(series, i) ==
    CHOOSE m \in {series[j] : j \in 1..i} : \A j \in 1..i : ~RLt(m, series[j])
DrawdownAt(series, i) ==
    RDiv(RSub(series[i], RunningMaxAt(series, i)), RunningMaxAt(series, i))
AllPositive(series) == \A k \in 1..Len(series) : RGt(series[k], RZero)

\* value is min over i of (series[i] - running_max[i]) / running_max[i], and
\* lies in [-1, 0] when the series is all-positive
IsMaxDrawdown(value, series) ==
    /\ \E i \in 1..Len(series) : value = DrawdownAt(series, i)
    /\ \A i \in 1..Len(series) : ~RLt(DrawdownAt(series, i), value)
    /\ AllPositive(series) => ~RLt(value, RInt(-1)) /\ ~RGt(value, RZero)

\* C17: calculate_max_drawdown of core/metrics.py returns min over i of
\* (series[i] - running_max[i]) / running_max[i] (for a series whose running
\* maxima are nonzero, so that the quotients exist), and for an all-positive
\* series the result lies in [-1, 0]; the max_drawdown field of the record
\* core's calculate_metrics returns is that value
C17_MaxDrawdown ==
    (/\ Len(met.series) >= 1
     /\ \A i \in 1..Len(met.series) : RunningMaxAt(met.series, i) # RZero)
    => /\ met.pc = "drawdown" => IsMaxDrawdown(met.result.max_drawdown, met.series)
       /\ (MetricsCalled /\ met.module = "core" /\ met.result.err = "none")
          => IsMaxDrawdown(met.result.max_drawdown, met.series)

\* calculate_max_drawdown has returned -3/4 for the all-positive series
\* [2, 4, 1], whose trough follows its peak
C17_Witness ==
    /\ met.pc = "drawdown"
    /\ met.series = <<RInt(2), RInt(4), RInt(1)>>
    /\ met.result.max_drawdown = Rat(-3, 4)

\* C18: the max_drawdown field of the record calculate_metrics of
\* src/calculations.py returns is the peak-to-trough drawdown, and is <= 0, for
\* every all-positive cash series
C18_TrueDrawdownInCalculations ==
    (/\ MetricsCalled /\ met.module = "calculations"
     /\ met.result.err = "none"
     /\ Len(met.series) >= 2 /\ AllPositive(met.series))
    => IsMaxDrawdown(met.result.max_drawdown, met.series)

\* C20: the sharpe field of the record calculate_metrics returns is computed
\* from the daily returns minus risk_free_rate / 252, for the risk_free_rate
\* the caller supplies
C20_SharpeUsesRiskFreeRate ==
    (/\ met.pc = "metrics" /\ met.argc = 5
     /\ Len(met.series) >= 1
     /\ Days(met.start_date, met.end_date) # 0)
    => /\ met.result.err = "none"
       /\ met.result.sharpe = calculate_sharpe(met.series, met.risk_free_rate)

-----------------------------------------------------------------------------
(* Properties of a sweep: staging, the batch write and the store *)

\* C21: in src/core a call of run_grid_search on a non-empty grid, a valid
\* price table and an empty store returns: every cell is a miss with a row in
\* results and a staged tuple, and the store then holds a row for every staged
\* tuple
C21_CoreSweepCompletes ==
    \A n \in CallIds :
        (/\ impl = "core" /\ fault = "none"
         /\ log[n].df = "A" /\ Cells(log[n]) >= 1
         /\ log[n].emptyAtStart
         /\ Finished(log[n]))
        => /\ Returned(n) /\ FullRows(log[n])
           /\ \A k \in 1..Cells(log[n]) : Miss(n, k)
           /\ Len(log[n].to_insert) = Cells(log[n])
           /\ HoldsBatch(table, log[n].to_insert)

-----------------------------------------------------------------------------
(* Properties of the rebalancing decision (SpecStrategy) *)

\* the grown total and the post-growth asset-1 fraction of timestep k
GrownTotal(k) == RAdd(GrownT1(k), GrownT2(k))
GrownFraction(k) == Fraction(GrownT1(k), GrownTotal(k))
AboveBand(k) == RGt(GrownFraction(k), RAdd(sim.t1_ratio, sim.rebalance_rate))
BelowBand(k) == RLt(GrownFraction(k), RSub(sim.t1_ratio, sim.rebalance_rate))

\* the stored timestep k follows the strict symmetric band
FollowsBand(k) ==
    /\ RGt(At(sim.rebalance, k), RZero) <=> AboveBand(k)
    /\ RLt(At(sim.rebalance, k), RZero) <=> BelowBand(k)
    /\ (~AboveBand(k) /\ ~BelowBand(k)) =>
         /\ At(sim.rebalance, k) = RZero
         /\ At(sim.t1_cash, k) = GrownT1(k)
         /\ At(sim.t2_cash, k) = GrownT2(k)

\* C22 as stated: at every stored timestep i >= 1, rebalance[i] > 0 exactly
\* when the post-growth fraction exceeds t1_ratio + rebalance_rate,
\* rebalance[i] < 0 exactly when it is below t1_ratio - rebalance_rate, and
\* otherwise rebalance[i] = 0 and the grown positions are stored unchanged
C22_SymmetricBand == \A k \in Processed : FollowsBand(k)

\* C22 amended: the same at the timesteps of a run with rebalance_rate > 0
\* whose grown total is nonzero
C22_SymmetricBandWhenEnabled ==
    \A k \in Processed :
        (RGt(sim.rebalance_rate, RZero) /\ GrownTotal(k) # RZero) => FollowsBand(k)

\* a stored timestep whose fraction lies on the upper band edge, without a
\* rebalance
C22_Witness ==
    \E k \in Processed :
        /\ RGt(sim.rebalance_rate, RZero) /\ GrownTotal(k) # RZero
        /\ GrownFraction(k) = RAdd(sim.t1_ratio, sim.rebalance_rate)
        /\ At(sim.rebalance, k) = RZero

\* C23: a timestep whose grown total is 0 runs no sell logic: it is stored with
\* rebalance[i] = 0 and both positions 0, and it is not the timestep at which
\* a run raises
C23_ZeroTotalSkipsSell ==
    /\ \A k \in Processed :
         GrownTotal(k) = RZero =>
            /\ At(sim.rebalance, k) = RZero
            /\ At(sim.t1_cash, k) = RZero /\ At(sim.t2_cash, k) = RZero
    /\ sim.pc = "raised" => GrownTotal(sim.i) # RZero

HasZeroPrice ==
    \E k \in 1..sim.n : sim.t1_prices[k] = RZero \/ sim.t2_prices[k] = RZero

\* C24: a run on price series that contain zeros does not raise; at a stored
\* timestep without a rebalance a position whose previous price is 0 is kept
\* (return 0) and a position whose new price is 0 becomes 0 (return -1)
C24_ZeroPricesNoException ==
    (sim.pc # "idle" /\ HasZeroPrice) =>
        /\ sim.pc # "raised"
        /\ \A k \in Processed :
             At(sim.rebalance, k) = RZero =>
                /\ At(sim.t1_prices, k - 1) = RZero
                   => At(sim.t1_cash, k) = At(sim.t1_cash, k - 1)
                /\ (At(sim.t1_prices, k - 1) # RZero /\ At(sim.t1_prices, k) = RZero)
                   => At(sim.t1_cash, k) = RZero

\* the store changes only in the step that ends a sweep after its last cell,
\* and that step adds rows (the batch insert) and ends the sweep
WritesOnlyAfterLoop ==
    table' # table =>
        /\ KeepsRows(table, table')
        /\ \E n \in CallIds :
             /\ log[n].status = "loop" /\ log[n].k = Cells(log[n])
             /\ log'[n].status = "returned"
             /\ \A j \in (Len(table) + 1)..Len(table') :
                  \E i \in 1..Len(log[n].to_insert) :
                     log[n].to_insert[i][1] = table'[j].hash

\* the k-th lookup of sweep n saw the store as it was when the sweep started
SawStartStore(n, k) == Hit(n, k) <=> HasHash(log[n].atStart, KeyOf(n, k))

\* C25 as stated: a sweep writes to the store once, by the batch insert after
\* its last cell and not while cells are processed, and every lookup of a
\* sweep observes the store as it was when the sweep started
C25_SingleBatchWrite ==
    /\ [][WritesOnlyAfterLoop]_vars
    /\ [](\A n \in CallIds : \A k \in 1..Len(log[n].hits) : SawStartStore(n, k))

\* C25 amended: the write is as stated; a lookup finds every row the store
\* held when the sweep started and none the sweep has staged itself, and it
\* also finds the rows another sweep has saved since
C25_SingleBatchWritePerSweep ==
    /\ [][WritesOnlyAfterLoop]_vars
    /\ [](\A n \in CallIds : \A k \in 1..Len(log[n].hits) :
            /\ HasHash(log[n].atStart, KeyOf(n, k)) => Hit(n, k)
            /\ Hit(n, k) => HasHash(table, KeyOf(n, k))
            /\ (log[n].status = "loop" /\ table = log[n].atStart)
               => SawStartStore(n, k))

\* a returned sweep that computed one key twice, having staged it without
\* saving it, and was served another key that a second sweep saved in the
\* meantime
C25_Witness ==
    \E n \in CallIds :
        /\ Returned(n)
        /\ HoldsBatch(table, log[n].to_insert)
        /\ \E k1, k2 \in 1..Len(log[n].hits) : ComputedTwice(n, k1, n, k2)
        /\ \E k \in 1..Len(log[n].hits) : ~SawStartStore(n, k)

\* C26: under every sequence of get_db_connection, get_cached_result and
\* save_results_batch the store is append-only: a step leaves every stored row
\* where and as it was, so stored metrics never change, no row is removed and
\* the set of stored hashes only grows
C26_AppendOnly ==
    [][/\ KeepsRows(table, table')
       /\ \A k \in 1..Len(table) : HasHash(table', table[k].hash)]_vars

\* a save on a store that held a row has added a row for a new hash and kept
\* the row of a hash that the batch carried with other metrics
C26_Witness ==
    /\ db.pc = "saved"
    /\ Len(db.before) >= 1 /\ Len(table) > Len(db.before)
    /\ \E i \in 1..Len(db.batch) :
         /\ db.batch[i][1] = db.before[1].hash
         /\ RowOf(impl, db.batch[i]) # db.before[1]
         /\ table[1] = db.before[1]

\* the asset-1 fraction stored at timestep k
StoredFraction(k) == RDiv(At(sim.t1_cash, k), TotalAt(k))

\* C27: with rebalance_rate > 0, 0 < t1_ratio < 1 and a positive total, the
\* asset-1 fraction stored at every timestep i >= 1 lies within
\* [t1_ratio - rebalance_rate, t1_ratio + rebalance_rate]
C27_StoredFractionInBand ==
    \A k \in Processed :
        (/\ RGt(sim.rebalance_rate, RZero)
         /\ RGt(sim.t1_ratio, RZero) /\ RLt(sim.t1_ratio, ROne)
         /\ RGt(TotalAt(k), RZero))
        => /\ ~RLt(StoredFraction(k), RSub(sim.t1_ratio, sim.rebalance_rate))
           /\ ~RGt(StoredFraction(k), RAdd(sim.t1_ratio, sim.rebalance_rate))

\* a run with 0 < t1_ratio < 1 in which one timestep was rebalanced back to
\* t1_ratio and another drifted inside the band and was left alone
C27_Witness ==
    /\ sim.pc = "done"
    /\ RGt(sim.rebalance_rate, RZero)
    /\ RGt(sim.t1_ratio, RZero) /\ RLt(sim.t1_ratio, ROne)
    /\ \E k \in Processed :
         /\ At(sim.rebalance, k) # RZero
         /\ RGt(TotalAt(k), RZero) /\ StoredFraction(k) = sim.t1_ratio
    /\ \E k \in Processed :
         /\ At(sim.rebalance, k) = RZero
         /\ RGt(TotalAt(k), RZero) /\ StoredFraction(k) # sim.t1_ratio

\* C28: when a sweep has raised (in a cell, or before or after the loop) the
\* store holds exactly the rows it held when the sweep started: nothing the
\* sweep computed is persisted.  The sweeps of Spec run one after the other, so
\* the store after a sweep is the store until the next one starts.
C28_RaiseLeavesStore ==
    \A n \in CallIds :
        (n = Len(log) /\ log[n].status = "raised") => table = log[n].atStart

\* a sweep that staged the metrics of one cell and raised in a later cell, on
\* a store that held rows
C28_Witness ==
    \E n \in CallIds :
        /\ n = Len(log) /\ log[n].status = "raised"
        /\ log[n].k < Cells(log[n])
        /\ Len(log[n].to_insert) >= 1
        /\ ~HasHash(table, log[n].to_insert[1][1])
        /\ table # <<>>

\* the k-th cell (k = 1, 2, ...) of the loops: rebalance_ratios outside,
\* t1_ratios inside
InLoopOrder(c, k) ==
    /\ c.results[k].rebalance_rate = c.rebalance_ratios[((k - 1) \div Len(c.t1_ratios)) + 1]
    /\ c.results[k].t1_ratio = c.t1_ratios[((k - 1) % Len(c.t1_ratios)) + 1]

\* the cell of the i-th miss of sweep n
NthMiss(n, i) ==
    CHOOSE k \in MissIds(n) : Cardinality({j \in MissIds(n) : j <= k}) = i

\* C29: results holds one row per processed cell in loop order; to_insert
\* holds one staged tuple per processed cell whose key was absent from the
\* store at lookup time, in order, and none for a cache hit
C29_StagedExactlyMisses ==
    \A n \in CallIds :
        /\ Len(log[n].results) = Len(log[n].hits)
        /\ log[n].status = "loop" => Len(log[n].results) = log[n].k
        /\ \A k \in 1..Len(log[n].results) :
             /\ InLoopOrder(log[n], k)
             /\ Miss(n, k) <=> ~HasHash(log[n].atStart, KeyOf(n, k))
        /\ Len(log[n].to_insert) = Cardinality(MissIds(n))
        /\ \A i \in 1..Len(log[n].to_insert) :
             log[n].to_insert[i][1] = KeyOf(n, NthMiss(n, i))

\* _process_grid has reached its end on a 2 x 2 grid with two cells served
\* from the cache and two staged
C29_Witness ==
    \E n \in CallIds :
        /\ log[n].status = "loop" /\ log[n].k = 4 /\ Cells(log[n]) = 4
        /\ log[n].t1_ratios[1] # log[n].t1_ratios[2]
        /\ Len(log[n].to_insert) = 2
        /\ Hit(n, 1) /\ Miss(n, 2) /\ Hit(n, 3) /\ Miss(n, 4)

\* x <= y on values that are not NaN
ELe(x, y) == ~ELt(y, x)

\* C30: for an all-positive cash series the max_weekly_drawdown and
\* max_monthly_drawdown of the record core's calculate_metrics returns are
\* each >= max_drawdown and <= 0
C30_CoarserDrawdownsMilder ==
    (/\ MetricsCalled /\ met.module = "core"
     /\ met.result.err = "none"
     /\ AllPositive(met.series))
    => /\ ELe(met.result.max_drawdown, met.result.max_weekly_drawdown)
       /\ ELe(met.result.max_weekly_drawdown, RZero)
       /\ ELe(met.result.max_drawdown, met.result.max_monthly_drawdown)
       /\ ELe(met.result.max_monthly_drawdown, RZero)

=============================================================================
